---- MODULE Spec2Model ----
(***************************************************************************)
(* A model of part1_script.py: the World Bank sanitation indicator is      *)
(* fetched, reshaped by preprocess_df, given the aggregate column          *)
(* 'Country_Avg_line' by main, and charted by create_chart with one        *)
(* dropdown whose buttons restyle the 'visible' attribute of every trace.  *)
(*                                                                         *)
(* A DataFrame is a record [index, columns, data]: index and columns are   *)
(* the sequences of row and column labels, data[r][c] is the cell of row r *)
(* and column c.  A cell is a rational [num, den]; den = 0 is NaN.  A raw  *)
(* value is counted in hundredths of a percent (den = 1), so that          *)
(* round(1) has something to round.                                        *)
(***************************************************************************)
EXTENDS Integers, Sequences, FiniteSets, TLC

VARIABLES
    pc,             \* position of the script
    remote,         \* the table the data provider holds for the indicator
    sanit_df,       \* main: sanit_df  (preprocess_df: df)
    world_index,    \* main: world_index (0-based, as list.index returns it)
    countries,      \* main: countries
    filter_options, \* main / create_chart: filter_options, a sequence of <<name, options>> in key order
    buttons,        \* create_chart: buttons, as given to updatemenus
    visible,        \* the figure: 'visible' of each trace, in trace order
    selected,       \* the dropdown: index into buttons of the last selection, 0 before any
    previous,       \* the dropdown: the selection before the last one, 0 when none
    html_writes,    \* number of times 'visual.html' has been written
    failed_at       \* the statement the unhandled exception left main at, "" when none

vars == <<pc, remote, sanit_df, world_index, countries, filter_options,
          buttons, visible, selected, previous, html_writes, failed_at>>

----------------------------------------------------------------------------
(* Bounds of the checked instances *)

MaxRows == 2
MaxCols == 2
MaxCountries == 2
MaxYears == 1
MaxChartCols == 3

----------------------------------------------------------------------------
(* Cells *)

NaN == [num |-> 0, den |-> 0]

Num(v) == [num |-> v, den |-> 1]

IsNull(c) == c.den = 0

\* numpy.round(x, 1) on a value in hundredths: to the nearest tenth, ties to even
Round1(c) ==
    IF c.den # 1 THEN c
    ELSE LET q == c.num \div 10
             r == c.num % 10
         IN  IF r < 5 THEN Num(10 * q)
             ELSE IF r > 5 THEN Num(10 * (q + 1))
             ELSE IF q % 2 = 0 THEN Num(10 * q) ELSE Num(10 * (q + 1))

----------------------------------------------------------------------------
(* Sequences *)

RECURSIVE Ascending(_)
Ascending(S) ==
    IF S = {} THEN << >>
    ELSE LET m == CHOOSE x \in S : \A y \in S : x <= y
         IN  <<m>> \o Ascending(S \ {m})

Take(seq, idxs) == [k \in 1..Len(idxs) |-> seq[idxs[k]]]

Range(seq) == {seq[k] : k \in 1..Len(seq)}

Contains(seq, x) == \E k \in 1..Len(seq) : seq[k] = x

\* list.index(x): the first position of x, 0-based
IndexOf(seq, x) == (CHOOSE k \in 1..Len(seq) : seq[k] = x /\ \A j \in 1..(k - 1) : seq[j] # x) - 1

----------------------------------------------------------------------------
(* DataFrame *)

EmptyFrame == [index |-> << >>, columns |-> << >>, data |-> << >>]

NRows(df) == Len(df.index)

NCols(df) == Len(df.columns)

ColAllNull(df, c) == \A r \in 1..NRows(df) : IsNull(df.data[r][c])

RowAllNull(df, r) == \A c \in 1..NCols(df) : IsNull(df.data[r][c])

\* df.dropna(axis=1, how='all')
DropNaColsAny(df) ==
    LET keep == Ascending({c \in 1..NCols(df) : \A r \in 1..NRows(df) : ~IsNull(df.data[r][c])})
    IN  [index |-> df.index,
         columns |-> Take(df.columns, keep),
         data |-> [r \in 1..NRows(df) |-> Take(df.data[r], keep)]]

DropNaCols(df) ==
    LET keep == Ascending({c \in 1..NCols(df) : ~ColAllNull(df, c)})
    IN  [index |-> df.index,
         columns |-> Take(df.columns, keep),
         data |-> [r \in 1..NRows(df) |-> Take(df.data[r], keep)]]

\* df.dropna(subset=list(df.columns), how='all')
DropNaRowsAny(df) ==
    LET keep == Ascending({r \in 1..NRows(df) : \A c \in 1..NCols(df) : ~IsNull(df.data[r][c])})
    IN  [index |-> Take(df.index, keep),
         columns |-> df.columns,
         data |-> Take(df.data, keep)]

DropNaRowsNone(df) == df

DropNaRows(df) ==
    LET keep == Ascending({r \in 1..NRows(df) : ~RowAllNull(df, r)})
    IN  [index |-> Take(df.index, keep),
         columns |-> df.columns,
         data |-> Take(df.data, keep)]

\* str.replace("YR", "", regex=True) on one label, a sequence of characters:
\* every non-overlapping occurrence, left to right, in one pass
RECURSIVE StripYR(_)
StripYR(s) ==
    IF Len(s) = 0 THEN << >>
    ELSE IF Len(s) >= 2 /\ s[1] = "Y" /\ s[2] = "R" THEN StripYR(SubSeq(s, 3, Len(s)))
    ELSE <<s[1]>> \o StripYR(Tail(s))

\* df.columns = df.columns.str.replace("YR", "", regex=True)
RenameColumns(df) ==
    [index |-> df.index,
     columns |-> [c \in 1..NCols(df) |-> StripYR(df.columns[c])],
     data |-> df.data]

\* df.round(1)
RoundFrame(df) ==
    [index |-> df.index,
     columns |-> df.columns,
     data |-> [r \in 1..NRows(df) |-> [c \in 1..NCols(df) |-> Round1(df.data[r][c])]]]

\* df.T
Transpose(df) ==
    [index |-> df.columns,
     columns |-> df.index,
     data |-> [c \in 1..NCols(df) |-> [r \in 1..NRows(df) |-> df.data[r][c]]]]

preprocess_df(df) == Transpose(RoundFrame(RenameColumns(DropNaRows(DropNaCols(df)))))

----------------------------------------------------------------------------
(* Labels *)

WORLD == "World"

AvgCol == "Country_Avg_line"

income_grps == <<"Low income", "Lower middle income", "Upper middle income", "High income">>

region_grps == <<"East Asia & Pacific", "Europe & Central Asia", "Latin America & Caribbean",
                 "Middle East & North Africa", "North America", "South Asia",
                 "Sub-Saharan Africa">>

\* every label of the checked instances, in the order sorted() gives str (by code point)
Alphabetical ==
    <<"Arab World", "Aruba", "Benin", "Chad", "Country_Avg_line", "East Asia & Pacific",
      "Europe & Central Asia", "High income", "Latin America & Caribbean", "Low income",
      "Lower middle income", "Middle East & North Africa", "North America", "South Asia",
      "Sub-Saharan Africa", "Upper middle income", "World">>

Rank(label) == IndexOf(Alphabetical, label)

RemoveAt(seq, k) == SubSeq(seq, 1, k - 1) \o SubSeq(seq, k + 1, Len(seq))

\* sorted(list)
RECURSIVE Sorted(_)
Sorted(seq) ==
    IF Len(seq) = 0 THEN << >>
    ELSE LET k == CHOOSE i \in 1..Len(seq) :
                    /\ \A j \in 1..Len(seq) : Rank(seq[i]) <= Rank(seq[j])
                    /\ \A j \in 1..(i - 1) : Rank(seq[j]) # Rank(seq[i])
         IN  <<seq[k]>> \o Sorted(RemoveAt(seq, k))

----------------------------------------------------------------------------
(* main: the aggregate column and the column reordering *)

\* df[labels]: the columns named by labels, in the order of labels (labels are unique in df)
HasColumns(df, labels) == \A k \in 1..Len(labels) : Contains(df.columns, labels[k])

SelectColumns(df, labels) ==
    LET pos == [k \in 1..Len(labels) |-> IndexOf(df.columns, labels[k]) + 1]
    IN  [index |-> df.index,
         columns |-> labels,
         data |-> [r \in 1..NRows(df) |-> Take(df.data[r], pos)]]

RECURSIVE SumNum(_)
SumNum(cells) ==
    IF Len(cells) = 0 THEN 0
    ELSE (IF IsNull(cells[1]) THEN 0 ELSE cells[1].num) + SumNum(Tail(cells))

\* the mean of one row, NaN skipped (skipna is the default); NaN when nothing is left
RowMean(cells) ==
    [num |-> SumNum(cells),
     den |-> Cardinality({k \in 1..Len(cells) : ~IsNull(cells[k])})]

\* df.mean(axis=1)
MeanAxis1(df) == [r \in 1..NRows(df) |-> RowMean(df.data[r])]

\* df[label] = values: overwrite the column when it exists, append it otherwise
SetColumn(df, label, values) ==
    IF Contains(df.columns, label)
    THEN LET p == IndexOf(df.columns, label) + 1
         IN  [index |-> df.index,
              columns |-> df.columns,
              data |-> [r \in 1..NRows(df) |-> [df.data[r] EXCEPT ![p] = values[r]]]]
    ELSE [index |-> df.index,
          columns |-> Append(df.columns, label),
          data |-> [r \in 1..NRows(df) |-> Append(df.data[r], values[r])]]

\* sorted(sanit_df.columns[0:world_index].tolist())
CountrySliceInclusive(df, wi) == Sorted(SubSeq(df.columns, 1, wi + 1))

CountrySlice(df, wi) == Sorted(SubSeq(df.columns, 1, wi))

----------------------------------------------------------------------------
(* create_chart *)

Shown == "True"

Hidden == "False"

LegendOnly == "legendonly"

\* lines 32-40: the entry of one column in the visibility_list of one category
VisibilityEntryNoAvgCase(category_name, options, col) ==
    IF Contains(options, col)
    THEN IF category_name = "Countries" THEN LegendOnly ELSE Shown
    ELSE Hidden

VisibilityEntryAvgAlways(category_name, options, col) ==
    IF col = AvgCol THEN Shown
    ELSE IF Contains(options, col)
    THEN IF category_name = "Countries" THEN LegendOnly ELSE Shown
    ELSE Hidden

VisibilityEntry(category_name, options, col) ==
    IF Contains(options, col)
    THEN IF col = AvgCol THEN Shown
         ELSE IF category_name = "Countries" THEN LegendOnly
         ELSE Shown
    ELSE Hidden

visibility_list(category_name, options, columns) ==
    [k \in 1..Len(columns) |-> VisibilityEntry(category_name, options, columns[k])]

Button(label, vector) == [label |-> label, method |-> "restyle", args |-> <<"visible", vector>>]

\* lines 45-49: one button per key of filter_options, in key order
CategoryButtons(options, columns) ==
    [i \in 1..Len(options) |->
        Button(options[i][1], visibility_list(options[i][1], options[i][2], columns))]

\* lines 51-54: the button of the union of all categories
AllButton(columns) == Button("All", [k \in 1..Len(columns) |-> LegendOnly])

ButtonsAllLast(options, columns) == CategoryButtons(options, columns) \o <<AllButton(columns)>>

Buttons(options, columns) == <<AllButton(columns)>> \o CategoryButtons(options, columns)

\* px.line(...).update_traces(visible="legendonly"): one trace per column
InitialTraces(columns) == [k \in 1..Len(columns) |-> LegendOnly]

\* method 'restyle' with args ['visible', vector]: trace k takes entry k of the vector
RestyleKeepHidden(traces, args) ==
    [k \in 1..Len(traces) |->
        IF traces[k] = Hidden THEN Hidden ELSE args[2][((k - 1) % Len(args[2])) + 1]]

Restyle(traces, args) ==
    [k \in 1..Len(traces) |-> args[2][((k - 1) % Len(args[2])) + 1]]

----------------------------------------------------------------------------
(* Inputs of the checked instances *)

CountryPool == <<"Chad", "Aruba", "Benin">>

YearPool == << <<"Y", "R", "0">>, <<"Y", "R", "1">>, <<"2">>, <<"Y", "Y", "R", "R", "3">> >>

RawValues == {NaN, Num(14), Num(25)}

\* a cell of the provider is missing or holds the value of its row: one value per
\* country of CountryPool, one for every aggregate
CountryValues == <<Num(14), Num(35), Num(56)>>

AggregateValue == Num(25)

CountryRow(label, present) ==
    [y \in 1..Len(present) |->
        IF present[y] THEN CountryValues[IndexOf(CountryPool, label) + 1] ELSE NaN]

AggregateRow(present) ==
    [y \in 1..Len(present) |-> IF present[y] THEN AggregateValue ELSE NaN]

ChartLabelPool == {AvgCol, "Chad", "World", "South Asia"}

CategoryPool == {"Countries", "Regions"}

OptionPool == {<< >>, <<AvgCol>>, <<"Chad">>, <<AvgCol, "Chad">>, <<"South Asia", "chad">>}

DistinctSeqs(S, n) ==
    UNION {{s \in [1..k -> S] : \A i, j \in 1..k : i # j => s[i] # s[j]} : k \in 0..n}

\* the rows the provider returns after the countries: 'World' and the other aggregates
AggregateLayouts ==
    {<<WORLD>> \o region_grps \o income_grps,
     <<WORLD, "Arab World">> \o income_grps \o region_grps,
     <<"Arab World", WORLD>> \o Tail(region_grps) \o income_grps,
     region_grps \o income_grps,
     << >>}

\* a table of the provider: the countries, then the aggregates; one column per year.
\* The 'Country' names are one per economy, so the labels of a table are distinct.
ProviderTable(cs, ag, n, cells, aggrow) ==
    [index |-> cs \o ag,
     columns |-> SubSeq(YearPool, 1, n),
     data |-> cells \o [k \in 1..Len(ag) |-> aggrow]]

----------------------------------------------------------------------------
(* main *)

Idle ==
    /\ world_index = -1
    /\ countries = << >>
    /\ filter_options = << >>
    /\ buttons = << >>
    /\ visible = << >>
    /\ selected = 0
    /\ previous = 0
    /\ html_writes = 0
    /\ failed_at = ""

Init ==
    /\ pc = "fetch"
    /\ \E cs \in DistinctSeqs(Range(SubSeq(CountryPool, 1, MaxCountries)), MaxCountries),
          ag \in AggregateLayouts,
          n \in 0..MaxYears :
          \E present \in [1..Len(cs) -> [1..n -> BOOLEAN]],
             aggpresent \in [1..n -> BOOLEAN] :
             remote = ProviderTable(cs, ag, n,
                                    [k \in 1..Len(cs) |-> CountryRow(cs[k], present[k])],
                                    AggregateRow(aggpresent))
    /\ sanit_df = EmptyFrame
    /\ Idle

Raise(where) ==
    /\ pc' = "error"
    /\ failed_at' = where

\* lines 143-146: wb.data.DataFrame(...), set_index("Country"), inspect_dataframe
Fetch ==
    /\ pc = "fetch"
    /\ sanit_df' = remote
    /\ pc' = "preprocess"
    /\ UNCHANGED <<remote, world_index, countries, filter_options, buttons, visible,
                   selected, previous, html_writes, failed_at>>

\* line 143: the network call raises
FetchFails ==
    /\ pc = "fetch"
    /\ Raise("fetch")
    /\ UNCHANGED <<remote, sanit_df, world_index, countries, filter_options, buttons,
                   visible, selected, previous, html_writes>>

\* line 147
Preprocess ==
    /\ pc = "preprocess"
    /\ sanit_df' = preprocess_df(sanit_df)
    /\ pc' = "locate"
    /\ UNCHANGED <<remote, world_index, countries, filter_options, buttons, visible,
                   selected, previous, html_writes, failed_at>>

\* line 150: list(sanit_df.columns).index('World'), ValueError when it is absent
LocateWorldLenient ==
    /\ pc = "locate"
    /\ world_index' = IF Contains(sanit_df.columns, WORLD)
                      THEN IndexOf(sanit_df.columns, WORLD)
                      ELSE NCols(sanit_df)
    /\ pc' = "derive"
    /\ UNCHANGED <<remote, sanit_df, countries, filter_options, buttons, visible,
                   selected, previous, html_writes, failed_at>>

LocateWorld ==
    /\ pc = "locate"
    /\ IF Contains(sanit_df.columns, WORLD)
       THEN /\ world_index' = IndexOf(sanit_df.columns, WORLD)
            /\ pc' = "derive"
            /\ UNCHANGED failed_at
       ELSE /\ Raise("sentinel")
            /\ UNCHANGED world_index
    /\ UNCHANGED <<remote, sanit_df, countries, filter_options, buttons, visible,
                   selected, previous, html_writes>>

\* lines 151-153
DeriveAverage ==
    /\ pc = "derive"
    /\ LET cs == CountrySlice(sanit_df, world_index)
       IN  /\ sanit_df' = SetColumn(sanit_df, AvgCol, MeanAxis1(SelectColumns(sanit_df, cs)))
           /\ countries' = <<AvgCol>> \o cs
    /\ pc' = "reorder"
    /\ UNCHANGED <<remote, world_index, filter_options, buttons, visible, selected,
                   previous, html_writes, failed_at>>

\* line 160: the labels the charted table is made of
ChartedLabelsNoRegions(cs) == cs \o income_grps

ChartedLabels(cs) == cs \o region_grps \o income_grps

\* line 163
FilterOptions(cs) ==
    << <<"Countries", cs>>, <<"Income Groups", income_grps>>, <<"Regions", region_grps>> >>

\* lines 156-163: sanit_df[...] raises KeyError when a label is no column
Reorder ==
    /\ pc = "reorder"
    /\ IF HasColumns(sanit_df, ChartedLabels(countries))
       THEN /\ sanit_df' = SelectColumns(sanit_df, ChartedLabels(countries))
            /\ filter_options' = FilterOptions(countries)
            /\ pc' = "chart"
            /\ UNCHANGED failed_at
       ELSE /\ Raise("reorder")
            /\ UNCHANGED <<sanit_df, filter_options>>
    /\ UNCHANGED <<remote, world_index, countries, buttons, visible, selected, previous, html_writes>>

\* line 165, lines 18-68: the figure, its buttons, fig.show(), fig.write_html('visual.html')
CreateChart ==
    /\ pc = "chart"
    /\ buttons' = Buttons(filter_options, sanit_df.columns)
    /\ visible' = InitialTraces(sanit_df.columns)
    /\ html_writes' = html_writes + 1
    /\ pc' = "done"
    /\ UNCHANGED <<remote, sanit_df, world_index, countries, filter_options, selected,
                   previous, failed_at>>

\* the viewer picks option i of the dropdown of the figure
Select(i) ==
    /\ pc = "done"
    /\ i \in 1..Len(buttons)
    /\ visible' = Restyle(visible, buttons[i].args)
    /\ selected' = i
    /\ previous' = selected
    /\ UNCHANGED <<pc, remote, sanit_df, world_index, countries, filter_options, buttons,
                   html_writes, failed_at>>

Next ==
    \/ Fetch
    \/ FetchFails
    \/ Preprocess
    \/ LocateWorld
    \/ DeriveAverage
    \/ Reorder
    \/ CreateChart

Spec == Init /\ [][Next]_vars

----------------------------------------------------------------------------
(* preprocess_df on its own, over every small table *)

InitPre ==
    /\ pc = "preprocess"
    /\ \E nr \in 0..MaxRows, nc \in 0..MaxCols :
          \E cells \in [1..nr -> [1..nc -> RawValues]] :
             remote = [index |-> SubSeq(CountryPool, 1, nr),
                       columns |-> SubSeq(YearPool, 1, nc),
                       data |-> cells]
    /\ sanit_df = remote
    /\ Idle

SpecPre == InitPre /\ [][Preprocess]_vars

----------------------------------------------------------------------------
(* create_chart on its own, over small tables and filter options *)

InitChart ==
    /\ pc = "chart"
    /\ remote = EmptyFrame
    /\ \E cols \in DistinctSeqs(ChartLabelPool, MaxChartCols) \ {<< >>},
          names \in DistinctSeqs(CategoryPool, Cardinality(CategoryPool)) :
          \E opts \in [1..Len(names) -> OptionPool] :
             /\ sanit_df = [index |-> <<YearPool[3]>>,
                            columns |-> cols,
                            data |-> <<[k \in 1..Len(cols) |-> Num(10 * k)]>>]
             /\ filter_options = [i \in 1..Len(names) |-> <<names[i], opts[i]>>]
    /\ world_index = -1
    /\ countries = << >>
    /\ buttons = << >>
    /\ visible = << >>
    /\ selected = 0
    /\ previous = 0
    /\ html_writes = 0
    /\ failed_at = ""

NextChart ==
    \/ CreateChart
    \/ \E i \in 1..Len(buttons) : Select(i)

SpecChart == InitChart /\ [][NextChart]_vars

----------------------------------------------------------------------------
(* Properties of create_chart, under SpecChart *)

OptionsOf(i) == Range(filter_options[i][2])

VectorOf(i) == buttons[i].args[2]

\* C1: the visibility vector of every category has one entry per table column, in
\* column order: False when the label is not in the category's option list, True for
\* a member that is 'Country_Avg_line', 'legendonly' for any other member of
\* 'Countries', True for a member of any other category.
C1_VisibilityVectors ==
    pc = "done" =>
        \A i \in 1..Len(filter_options) :
            /\ Len(VectorOf(i + 1)) = NCols(sanit_df)
            /\ \A k \in 1..NCols(sanit_df) :
                  LET col == sanit_df.columns[k]
                      entry == VectorOf(i + 1)[k]
                  IN  /\ col \notin OptionsOf(i) => entry = Hidden
                      /\ (col \in OptionsOf(i) /\ col = AvgCol) => entry = Shown
                      /\ (col \in OptionsOf(i) /\ col # AvgCol
                            /\ filter_options[i][1] = "Countries") => entry = LegendOnly
                      /\ (col \in OptionsOf(i) /\ col # AvgCol
                            /\ filter_options[i][1] # "Countries") => entry = Shown

C1_Witness ==
    /\ pc = "done"
    /\ Range(sanit_df.columns) = {AvgCol, "Chad", "World"}
    /\ \E i, j \in 1..Len(filter_options) :
          /\ filter_options[i] = <<"Countries", <<AvgCol, "Chad">> >>
          /\ filter_options[j] = <<"Regions", <<AvgCol, "Chad">> >>
          /\ Range(VectorOf(i + 1)) = {Shown, LegendOnly, Hidden}
          /\ Range(VectorOf(j + 1)) = {Shown, Hidden}

\* C3: the 'All' option comes before every category option, its vector has one
\* entry per table column and every entry is 'legendonly'.
C3_AllOptionFirst ==
    pc = "done" =>
        /\ buttons[1].label = "All"
        /\ \A i \in 1..Len(filter_options) : buttons[i + 1].label = filter_options[i][1]
        /\ Len(VectorOf(1)) = NCols(sanit_df)
        /\ \A k \in 1..Len(VectorOf(1)) : VectorOf(1)[k] = LegendOnly

C3_Witness ==
    /\ pc = "done"
    /\ Len(filter_options) = 2
    /\ NCols(sanit_df) >= 3
    /\ Len(buttons) = 3

\* C4: the dropdown has one option per category plus one; before any selection every
\* trace is 'legendonly'; after any sequence of selections every trace has the entry of
\* the vector of the option selected last.
C4_SelectionAppliesVector ==
    pc = "done" =>
        /\ Len(buttons) = Len(filter_options) + 1
        /\ Len(visible) = NCols(sanit_df)
        /\ selected = 0 => \A k \in 1..Len(visible) : visible[k] = LegendOnly
        /\ selected # 0 => \A k \in 1..Len(visible) : visible[k] = VectorOf(selected)[k]

C4_Witness ==
    /\ pc = "done"
    /\ previous # 0
    /\ selected # previous
    /\ \E k \in 1..Len(visible) : VectorOf(previous)[k] = Hidden /\ visible[k] = Shown

----------------------------------------------------------------------------
(* Properties of preprocess_df, under SpecPre: remote is the table passed in, *)
(* sanit_df the table returned                                              *)

AllNullCols(df) == {c \in 1..NCols(df) : \A r \in 1..NRows(df) : df.data[r][c] = NaN}

AllNullRows(df) == {r \in 1..NRows(df) : \A c \in 1..NCols(df) : df.data[r][c] = NaN}

Returned == pc = "locate"

\* C5: when the input has an all-null column, the rows of the output are exactly the
\* input columns that have a non-null cell: each of them appears and no all-null one.
C5_DropsExactlyAllNullColumns ==
    (Returned /\ AllNullCols(remote) # {}) =>
        /\ \A c \in (1..NCols(remote)) \ AllNullCols(remote) :
              Contains(sanit_df.index, StripYR(remote.columns[c]))
        /\ \A c \in AllNullCols(remote) :
              ~Contains(sanit_df.index, StripYR(remote.columns[c]))

C5_Witness ==
    /\ Returned
    /\ AllNullCols(remote) # {}
    /\ \E c \in (1..NCols(remote)) \ AllNullCols(remote) :
          /\ \E r \in 1..NRows(remote) : remote.data[r][c] = NaN
          /\ Contains(sanit_df.index, StripYR(remote.columns[c]))

\* C6: the output has as many rows as the input has columns that are not all-null, and
\* as many columns as the input has rows that are not all-null.
C6_Shape ==
    Returned =>
        /\ NRows(sanit_df) = NCols(remote) - Cardinality(AllNullCols(remote))
        /\ NCols(sanit_df) = NRows(remote) - Cardinality(AllNullRows(remote))
        /\ \A r \in 1..NRows(sanit_df) : Len(sanit_df.data[r]) = NCols(sanit_df)

C6_Witness ==
    /\ Returned
    /\ AllNullCols(remote) # {}
    /\ AllNullRows(remote) # {}
    /\ NRows(sanit_df) > 0
    /\ NCols(sanit_df) > 0

\* C10: the output has no all-null row and no all-null column, and the two drop steps
\* leave it as it is.
C10_NoNullLinesLeft ==
    Returned =>
        /\ AllNullRows(sanit_df) = {}
        /\ AllNullCols(sanit_df) = {}
        /\ DropNaRows(DropNaCols(sanit_df)) = sanit_df

C10_Witness ==
    /\ Returned
    /\ AllNullRows(remote) # {}
    /\ NCols(sanit_df) < NRows(remote)
    /\ \E r \in 1..NRows(sanit_df) :
          \E c \in 1..NCols(sanit_df) : sanit_df.data[r][c] # NaN

----------------------------------------------------------------------------
(* Properties of main, under Spec *)

Reshaped == preprocess_df(remote)

Derived == pc \in {"reorder", "chart", "done"} \/ failed_at = "reorder"

\* the columns positioned before the first 'World' column
BeforeWorld(df) == {c \in 1..NCols(df) : \A j \in 1..c : df.columns[j] # WORLD}

RECURSIVE SumOver(_, _)
SumOver(row, S) ==
    IF S = {} THEN 0
    ELSE LET c == CHOOSE x \in S : TRUE
         IN  (IF row[c] = NaN THEN 0 ELSE row[c].num) + SumOver(row, S \ {c})

MeanOver(row, S) ==
    [num |-> SumOver(row, S), den |-> Cardinality({c \in S : row[c] # NaN})]

AvgPos == IndexOf(sanit_df.columns, AvgCol) + 1

\* C7: in every year row, 'Country_Avg_line' is the mean of exactly the columns of the
\* reshaped table positioned before 'World', whatever the order of the country list.
C7_AverageOfCountries ==
    Derived =>
        /\ Contains(sanit_df.columns, AvgCol)
        /\ NRows(sanit_df) = NRows(Reshaped)
        /\ \A r \in 1..NRows(Reshaped) :
              sanit_df.data[r][AvgPos] = MeanOver(Reshaped.data[r], BeforeWorld(Reshaped))

C7_Witness ==
    /\ pc = "done"
    /\ Cardinality(BeforeWorld(Reshaped)) = 2
    /\ Rank(Reshaped.columns[1]) > Rank(Reshaped.columns[2])
    /\ \E r \in 1..NRows(Reshaped) :
          /\ sanit_df.data[r][AvgPos].den = 2
          /\ Reshaped.data[r][1] # Reshaped.data[r][2]
          /\ Reshaped.data[r][3] # NaN

NoWorld == \A c \in 1..NCols(Reshaped) : Reshaped.columns[c] # WORLD

LookedUp == pc \notin {"fetch", "preprocess", "locate"} /\ failed_at # "fetch"

\* C8: without a 'World' column main stops at the sentinel lookup, with no aggregate
\* column, no chart and no file; the file is written at most once, and only when the
\* fetch, the reshape, the lookup, the reordering and the chart all succeeded.
C8_NoWorldNoFile ==
    /\ html_writes <= 1
    /\ (LookedUp /\ NoWorld) =>
          /\ pc = "error"
          /\ failed_at = "sentinel"
          /\ ~Contains(sanit_df.columns, AvgCol)
          /\ countries = << >>
          /\ buttons = << >>
          /\ visible = << >>
          /\ html_writes = 0
    /\ html_writes = 1 =>
          /\ pc = "done"
          /\ failed_at = ""
          /\ ~NoWorld
          /\ Range(region_grps) \cup Range(income_grps) \subseteq Range(Reshaped.columns)
          /\ Len(buttons) = 4

C8_Witness ==
    /\ pc = "error"
    /\ failed_at = "sentinel"
    /\ NCols(sanit_df) > 0
    /\ NRows(sanit_df) > 0
    /\ html_writes = 0

AllOptions == UNION {OptionsOf(i) : i \in 1..Len(filter_options)}

\* C9: the charted table has exactly the columns of the three option lists, each of
\* them non-hidden in some category's vector; a reshaped column in no category is left
\* out without an error (the reordering fails only for a missing group label).
C9_ChartedColumnsAreTheCategories ==
    /\ pc \in {"chart", "done"} =>
          /\ Len(filter_options) = 3
          /\ Range(sanit_df.columns) = AllOptions
          /\ \A l \in Range(Reshaped.columns) \ AllOptions : ~Contains(sanit_df.columns, l)
          /\ failed_at = ""
    /\ pc = "done" =>
          \A k \in 1..NCols(sanit_df) :
              \E i \in 1..Len(filter_options) : VectorOf(i + 1)[k] # Hidden
    /\ failed_at = "reorder" =>
          \E l \in Range(region_grps) \cup Range(income_grps) : ~Contains(Reshaped.columns, l)

C9_Witness ==
    /\ pc = "done"
    /\ Contains(Reshaped.columns, "Arab World")
    /\ ~Contains(sanit_df.columns, "Arab World")
    /\ ~Contains(sanit_df.columns, WORLD)
    /\ Len(countries) = 3

\* C2 as stated: 'Country_Avg_line' is shown (True) in every vector of the dropdown.
C2_ShownInEveryVector ==
    pc = "done" => \A i \in 1..Len(buttons) : VectorOf(i)[AvgPos] = Shown

\* C2 as amended: 'Country_Avg_line' is shown (True) in the vector of every category
\* whose option list holds it, which in main is 'Countries' alone; it is hidden in the
\* vectors of 'Income Groups' and 'Regions' and 'legendonly' in the vector of 'All'.
C2_ShownWhereMember ==
    pc = "done" =>
        /\ \A i \in 1..Len(filter_options) :
              VectorOf(i + 1)[AvgPos] = IF AvgCol \in OptionsOf(i) THEN Shown ELSE Hidden
        /\ {filter_options[i][1] : i \in {j \in 1..Len(filter_options) : AvgCol \in OptionsOf(j)}}
              = {"Countries"}
        /\ VectorOf(1)[AvgPos] = LegendOnly

C2_Witness ==
    /\ pc = "done"
    /\ \E i, j \in 2..Len(buttons) :
          /\ buttons[i].label = "Countries" /\ VectorOf(i)[AvgPos] = Shown
          /\ buttons[j].label = "Regions" /\ VectorOf(j)[AvgPos] = Hidden

====
